---- MODULE Spec2Model ----
(***************************************************************************)
(* Model of src/src/lambda_function.py: the S3-triggered handler that      *)
(* reads an object, asks Bedrock for a summary through retry_with_backoff  *)
(* and indexes the result into OpenSearch.                                 *)
(*                                                                         *)
(* Text is a sequence of Unicode code points, bytes are a sequence of      *)
(* numbers 0..255.  Time is counted in ticks of 1/JitterRes second.        *)
(***************************************************************************)
EXTENDS Integers, Sequences, FiniteSets, TLC

VARIABLES
    started,        \* number of invocations of handler begun in this process
    succeeded,      \* number of invocations of handler that returned 'Success'
    parked,         \* the frame of the other, suspended invocation
    event,          \* the event handed to handler
    env_host,       \* os.environ.get('OPENSEARCH_HOST'); None when unset
    max_retries,    \* retry_with_backoff's local max_retries
    index_exists,   \* OpenSearch: does the index "summaries" exist
    index_docs,     \* OpenSearch: the documents of "summaries", in write order
    pc,             \* handler's position
    bucket,         \* handler's local bucket
    key,            \* handler's local key (decoded)
    raw,            \* bytes of response['Body'].read()
    file_content,   \* handler's local file_content
    attempt,        \* retry_with_backoff's loop variable
    calls,          \* number of invocations of func made by retry_with_backoff
    sleeps,         \* the arguments of time.sleep, in ticks, in call order
    outcomes,       \* how each invocation of func ended, in call order
    bedrock_resp,   \* handler's local bedrock_resp
    summary,        \* handler's local summary
    document,       \* handler's local document
    exc,            \* the exception in flight (last one raised)
    result,         \* what handler returned
    ops             \* how often each external operation was invoked

vars == <<started, succeeded, parked, event, env_host, max_retries, index_exists, index_docs, pc, bucket,
          key, raw, file_content, attempt, calls, sleeps, outcomes,
          bedrock_resp, summary, document, exc, result, ops>>

None == "None"

----------------------------------------------------------------------------
(* Bounds of the model *)

\* random.uniform(0, 1) is drawn from {0, 1/JitterRes, .., (JitterRes-1)/JitterRes}
JitterRes == 2

----------------------------------------------------------------------------
(* Program constants *)

DefaultMaxRetries == 5
base_delay == 2
TruncationBound == 15000
ContentFieldLen == 1000
StatusOk == 200

----------------------------------------------------------------------------
(* Python helpers *)

Min(a, b) == IF a < b THEN a ELSE b

\* s[:n] for n >= 0
SliceTo(s, n) == SubSeq(s, 1, Min(n, Len(s)))

RECURSIVE Pow2(_)
\* 2 ** n
Pow2(n) == IF n <= 0 THEN 1 ELSE 2 * Pow2(n - 1)

\* range(n)
Range(n) == 0 .. (n - 1)

----------------------------------------------------------------------------
(* urllib.parse.unquote_plus, on ASCII input whose escapes name bytes      *)
(* below 0xC0 or two-byte UTF-8 sequences                                  *)

IsHex(c) == c \in (48..57) \cup (65..70) \cup (97..102)

HexVal(c) == IF c \in 48..57 THEN c - 48
             ELSE IF c \in 65..70 THEN c - 55
             ELSE c - 87

\* string.replace('+', ' ')
PlusToSpace(s) == [i \in 1..Len(s) |-> IF s[i] = 43 THEN 32 ELSE s[i]]

RECURSIVE UnquoteToBytes(_)
\* unquote_to_bytes: %XX with two hex digits becomes one byte, any other
\* character (a '%' without two hex digits included) stays
UnquoteToBytes(s) ==
    IF s = <<>> THEN <<>>
    ELSE IF s[1] = 37 /\ Len(s) >= 3 /\ IsHex(s[2]) /\ IsHex(s[3])
         THEN <<16 * HexVal(s[2]) + HexVal(s[3])>> \o UnquoteToBytes(SubSeq(s, 4, Len(s)))
         ELSE <<s[1]>> \o UnquoteToBytes(Tail(s))

IsCont(b) == b \in 128..191
IsLead2(b) == b \in 194..223
ReplacementChar == 65533

RECURSIVE DecodeReplace(_)
\* bytes.decode('utf-8', errors='replace')
DecodeReplace(b) ==
    IF b = <<>> THEN <<>>
    ELSE IF b[1] < 128 THEN <<b[1]>> \o DecodeReplace(Tail(b))
    ELSE IF IsLead2(b[1]) /\ Len(b) >= 2 /\ IsCont(b[2])
         THEN <<(b[1] - 192) * 64 + (b[2] - 128)>> \o DecodeReplace(SubSeq(b, 3, Len(b)))
         ELSE <<ReplacementChar>> \o DecodeReplace(Tail(b))

unquote_plus(s) == DecodeReplace(UnquoteToBytes(PlusToSpace(s)))

----------------------------------------------------------------------------
(* bytes.decode('utf-8'), strict, on one- and two-byte sequences *)

WellFormedUtf8(b) ==
    \A i \in 1..Len(b) :
        \/ b[i] < 128
        \/ IsLead2(b[i]) /\ i < Len(b) /\ IsCont(b[i + 1])
        \/ IsCont(b[i]) /\ i > 1 /\ IsLead2(b[i - 1])

\* the decoded text of well-formed bytes: one character per byte that is no
\* continuation byte
Utf8Text(b) ==
    SelectSeq([i \in 1..Len(b) |->
                  IF b[i] < 128 THEN b[i]
                  ELSE IF IsLead2(b[i]) THEN (b[i] - 192) * 64 + (b[i + 1] - 128)
                  ELSE 0 - 1],
              LAMBDA c : c >= 0)

----------------------------------------------------------------------------
(* Exceptions and responses.  "at" is the number of the invocation of the  *)
(* wrapped operation that produced the value (0: not from the operation).  *)

ClientError(code, n) == [cls |-> "ClientError", code |-> code, at |-> n]
OtherError(cls, n) == [cls |-> cls, code |-> None, at |-> n]

\* e.response['Error']['Code'] of a ClientError
error_code(e) == e.code

\* str(e) of line 115 without the error code of a ClientError
Str_ClassOnly(e) == <<e.cls>>

\* str(e) of line 115
Str(e) == IF e.code = None THEN <<e.cls>> ELSE <<e.cls, e.code>>

\* json.dumps of a string
JsonDumps(s) == [json |-> TRUE, text |-> s]
Plain(s) == [json |-> FALSE, text |-> s]

Response(body) == [statusCode |-> StatusOk, body |-> body]

----------------------------------------------------------------------------
(* The environment: the events S3 may deliver, the objects of the bucket,  *)
(* the responses Bedrock may give                                          *)

\* object keys as S3 sends them (percent-encoded), as code points:
\* "k", "k+k", "k%20k", "%2B", "%k", "k2", "kB", "0", "2", "B", "%BB"
RawKeys ==
    { <<107>>, <<107, 43, 107>>, <<107, 37, 50, 48, 107>>, <<37, 50, 66>>,
      <<37, 107>>, <<107, 50>>, <<107, 66>>, <<48>>, <<50>>, <<66>>,
      <<37, 66, 66>> }

S3Record(name, k) == [s3 |-> [bucket |-> [name |-> name], object |-> [key |-> k]]]

\* well-formed notifications, one without records, one without 'Records'
Events ==
    { [Records |-> <<S3Record("docs", k)>>] : k \in RawKeys }
        \cup { [Records |-> <<>>], [Other |-> <<>>] }

AsciiBytes(n) == [i \in 1..n |-> 97 + (i % 26)]

\* the bucket's objects by (decoded) key; <<-1>> stands for no such key
NoObject == <<-1>>
StoredObject(k) ==
    CASE k = <<107>>          -> <<>>
      [] k = <<107, 32, 107>> -> AsciiBytes(11)
      [] k = <<43>>           -> AsciiBytes(ContentFieldLen)
      [] k = <<37, 107>>      -> AsciiBytes(ContentFieldLen + 1)
      [] k = <<107, 50>>      -> AsciiBytes(TruncationBound)
      [] k = <<107, 66>>      -> AsciiBytes(TruncationBound + 1)
      [] k = <<48>>           -> <<195, 169>> \o AsciiBytes(3)
      [] k = <<50>>           -> <<195, 169>> \o AsciiBytes(TruncationBound - 1)
      [] k = <<66>>           -> <<104, 169>>
      [] OTHER                -> NoObject

SummaryTexts == {"", "A summary"}

NoResp == [kind |-> "None", has_content |-> FALSE, content |-> <<>>, at |-> 0]

\* what bedrock.invoke_model may return as its n-th invocation
ModelResponses(n) ==
    { [kind |-> "json", has_content |-> TRUE,
       content |-> <<[has_text |-> TRUE, text |-> t]>>, at |-> n] : t \in SummaryTexts }
    \cup
    { [kind |-> "json", has_content |-> TRUE,
       content |-> <<[has_text |-> TRUE, text |-> "A summary"],
                     [has_text |-> TRUE, text |-> "More"]>>, at |-> n],
      [kind |-> "json", has_content |-> TRUE, content |-> <<>>, at |-> n],
      [kind |-> "json", has_content |-> FALSE, content |-> <<>>, at |-> n],
      [kind |-> "not_json", has_content |-> FALSE, content |-> <<>>, at |-> n] }

\* what bedrock.invoke_model may raise as its n-th invocation
ModelFailures(n) ==
    { ClientError("ThrottlingException", n), ClientError("AccessDeniedException", n),
      OtherError("EndpointConnectionError", n) }

NoExc == OtherError("None", 0)
NoResult == [statusCode |-> 0, body |-> Plain(<<>>)]
NoDoc == [filename |-> <<>>, content |-> <<>>, summary |-> "", timestamp |-> ""]
NoOps == [get_object |-> 0, client |-> 0, exists |-> 0, create |-> 0, index |-> 0]

Bump(f) == [ops EXCEPT ![f] = @ + 1]

----------------------------------------------------------------------------
(* retry_with_backoff *)

\* the head of "for attempt in range(max_retries)" with the loop variable
\* about to become a: the body runs, or the loop ends, the function returns
\* None and handler goes on at line 77 with bedrock_resp = None.
\* First, line 22 with range(max_retries - 1)
LoopHead_OneShort(a) == IF a \in Range(max_retries - 1) THEN "call" ELSE "parse"

\* line 22
LoopHead(a) == IF a \in Range(max_retries) THEN "call" ELSE "parse"

\* line 28 with the attempts counted from 1
SleepTime_FromOne(a, j) == base_delay * Pow2(a + 1) * JitterRes + j

\* line 28 with 2 * attempt for 2 ** attempt
SleepTime_Linear(a, j) == base_delay * (2 * a) * JitterRes + j

\* sleep_time, in ticks, for jitter j ticks
SleepTime(a, j) == base_delay * Pow2(a) * JitterRes + j

\* line 27 without the bound on the attempt
ShouldRetry_Unbounded(e, a) == error_code(e) = "ThrottlingException"

\* line 27 without the test of the error code
ShouldRetry_AnyCode(e, a) == a < max_retries - 1

\* the condition of line 27
ShouldRetry(e, a) == error_code(e) = "ThrottlingException" /\ a < max_retries - 1

\* how an invocation of func that raised e ended
Outcome(e) ==
    IF e.cls # "ClientError" THEN "error"
    ELSE IF error_code(e) = "ThrottlingException" THEN "throttled"
    ELSE "client_error"

\* lines 22-27, 31-32: one invocation of func and what becomes of its outcome
CallBedrock ==
    /\ pc = "call"
    /\ calls' = calls + 1
    /\ \/ \E r \in ModelResponses(calls + 1) :
            /\ bedrock_resp' = r
            /\ outcomes' = Append(outcomes, "returned")
            /\ pc' = "parse"
            /\ exc' = exc
       \/ \E e \in ModelFailures(calls + 1) :
            /\ exc' = e
            /\ outcomes' = Append(outcomes, Outcome(e))
            /\ bedrock_resp' = bedrock_resp
            /\ pc' = IF e.cls = "ClientError" /\ ShouldRetry(e, attempt)
                     THEN "sleep" ELSE "except"
    /\ UNCHANGED <<started, succeeded, parked, event, env_host, max_retries, index_exists, index_docs, bucket,
                   key, raw, file_content, attempt, sleeps, summary, document,
                   result, ops>>

\* lines 28-30, the end of the except clause (which unbinds e), then the next
\* iteration of the loop
Sleep ==
    /\ pc = "sleep"
    /\ \E j \in 0..(JitterRes - 1) :
            sleeps' = Append(sleeps, SleepTime(attempt, j))
    /\ attempt' = attempt + 1
    /\ pc' = LoopHead(attempt + 1)
    /\ exc' = NoExc
    /\ UNCHANGED <<started, succeeded, parked, event, env_host, max_retries, index_exists, index_docs, bucket,
                   key, raw, file_content, calls, outcomes, bedrock_resp, summary, document,
                   result, ops>>

----------------------------------------------------------------------------
(* handler *)

\* lines 38-39, outside the try block
ReadEvent ==
    /\ pc = "read_event"
    /\ IF "Records" \notin DOMAIN event
       THEN /\ exc' = OtherError("KeyError", 0)
            /\ pc' = "raised"
            /\ UNCHANGED <<bucket, key>>
       ELSE IF Len(event.Records) = 0
       THEN /\ exc' = OtherError("IndexError", 0)
            /\ pc' = "raised"
            /\ UNCHANGED <<bucket, key>>
       ELSE /\ bucket' = event.Records[1].s3.bucket.name
            /\ key' = unquote_plus(event.Records[1].s3.object.key)
            /\ pc' = "get_object"
            /\ exc' = exc
    /\ UNCHANGED <<started, succeeded, parked, event, env_host, max_retries, index_exists, index_docs, raw,
                   file_content, attempt, calls, sleeps, outcomes, bedrock_resp, summary,
                   document, result, ops>>

\* line 45 and the read() of line 46
GetObject ==
    /\ pc = "get_object"
    /\ ops' = Bump("get_object")
    /\ \E denied \in BOOLEAN :
        IF denied
        THEN /\ exc' = ClientError("AccessDenied", 0)
             /\ pc' = "except"
             /\ raw' = raw
        ELSE IF StoredObject(key) = NoObject
        THEN /\ exc' = ClientError("NoSuchKey", 0)
             /\ pc' = "except"
             /\ raw' = raw
        ELSE /\ raw' = StoredObject(key)
             /\ pc' = "decode"
             /\ exc' = exc
    /\ UNCHANGED <<started, succeeded, parked, event, env_host, max_retries, index_exists, index_docs, bucket,
                   key, file_content, attempt, calls, sleeps, outcomes, bedrock_resp, summary,
                   document, result>>

\* line 48 without the test
IsEmptyText_Never(text) == FALSE

\* "not file_content" of line 48
IsEmptyText(text) == Len(text) = 0

\* the decode of line 46 and lines 48-49
Decode ==
    /\ pc = "decode"
    /\ IF ~WellFormedUtf8(raw)
       THEN /\ exc' = OtherError("UnicodeDecodeError", 0)
            /\ pc' = "except"
            /\ UNCHANGED <<file_content, result>>
       ELSE /\ file_content' = Utf8Text(raw)
            /\ exc' = exc
            /\ IF IsEmptyText(Utf8Text(raw))
               THEN /\ result' = Response(Plain(<<"File is empty">>))
                    /\ pc' = "done"
               ELSE /\ result' = result
                    /\ pc' = "truncate"
    /\ UNCHANGED <<started, succeeded, parked, event, env_host, max_retries, index_exists, index_docs, bucket,
                   key, raw, attempt, calls, sleeps, outcomes, bedrock_resp, summary, document,
                   ops>>

\* lines 53-55 cutting one character short
Truncated_OffByOne(text) ==
    IF Len(text) > TruncationBound THEN SliceTo(text, TruncationBound - 1) ELSE text

\* lines 53-55
Truncated(text) ==
    IF Len(text) > TruncationBound THEN SliceTo(text, TruncationBound) ELSE text

\* lines 53-75: truncate, build the request, enter retry_with_backoff
Truncate ==
    /\ pc = "truncate"
    /\ file_content' = Truncated(file_content)
    /\ attempt' = 0
    /\ pc' = LoopHead(0)
    /\ UNCHANGED <<started, succeeded, parked, event, env_host, max_retries, index_exists, index_docs, bucket,
                   key, raw, calls, sleeps, outcomes, bedrock_resp, summary, document, exc,
                   result, ops>>

\* line 78 taking the last content block for the first
SummaryOf_LastBlock(resp_body) == resp_body.content[Len(resp_body.content)].text

\* resp_body['content'][0]['text'] of line 78
SummaryOf(resp_body) == resp_body.content[1].text

\* lines 77-79
Parse ==
    /\ pc = "parse"
    /\ IF bedrock_resp.kind = "None"
       THEN /\ exc' = OtherError("TypeError", 0)
            /\ pc' = "except"
            /\ summary' = summary
       ELSE IF bedrock_resp.kind = "not_json"
       THEN /\ exc' = OtherError("JSONDecodeError", 0)
            /\ pc' = "except"
            /\ summary' = summary
       ELSE IF ~bedrock_resp.has_content
       THEN /\ exc' = OtherError("KeyError", 0)
            /\ pc' = "except"
            /\ summary' = summary
       ELSE IF Len(bedrock_resp.content) = 0
       THEN /\ exc' = OtherError("IndexError", 0)
            /\ pc' = "except"
            /\ summary' = summary
       ELSE IF ~bedrock_resp.content[1].has_text
       THEN /\ exc' = OtherError("KeyError", 0)
            /\ pc' = "except"
            /\ summary' = summary
       ELSE /\ summary' = SummaryOf(bedrock_resp)
            /\ pc' = "get_host"
            /\ exc' = exc
    /\ UNCHANGED <<started, succeeded, parked, event, env_host, max_retries, index_exists, index_docs, bucket,
                   key, raw, file_content, attempt, calls, sleeps, outcomes, bedrock_resp,
                   document, result, ops>>

\* line 82
GetHost ==
    /\ pc = "get_host"
    /\ IF env_host = None
       THEN /\ exc' = OtherError("KeyError", 0)
            /\ pc' = "except"
       ELSE /\ exc' = exc
            /\ pc' = "make_client"
    /\ UNCHANGED <<started, succeeded, parked, event, env_host, max_retries, index_exists, index_docs, bucket,
                   key, raw, file_content, attempt, calls, sleeps, outcomes, bedrock_resp,
                   summary, document, result, ops>>

\* lines 97-102 without the slice of line 99
Document_Unsliced(k, content, text) ==
    [filename |-> k, content |-> content, summary |-> text, timestamp |-> "2024-01-01"]

\* lines 97-102
Document(k, content, text) ==
    [filename |-> k, content |-> SliceTo(content, ContentFieldLen),
     summary |-> text, timestamp |-> "2024-01-01"]

\* lines 85-102: the signer fails without credentials
MakeClient ==
    /\ pc = "make_client"
    /\ ops' = Bump("client")
    /\ \E credentials \in BOOLEAN :
        IF ~credentials
        THEN /\ exc' = OtherError("ValueError", 0)
             /\ pc' = "except"
             /\ document' = document
        ELSE /\ document' = Document(key, file_content, summary)
             /\ pc' = "exists"
             /\ exc' = exc
    /\ UNCHANGED <<started, succeeded, parked, event, env_host, max_retries, index_exists, index_docs, bucket,
                   key, raw, file_content, attempt, calls, sleeps, outcomes, bedrock_resp,
                   summary, result>>

\* line 105
IndexExists ==
    /\ pc = "exists"
    /\ ops' = Bump("exists")
    /\ \E reachable \in BOOLEAN :
        IF ~reachable
        THEN /\ exc' = OtherError("ConnectionError", 0)
             /\ pc' = "except"
        ELSE /\ pc' = IF ~index_exists THEN "create" ELSE "index"
             /\ exc' = exc
    /\ UNCHANGED <<started, succeeded, parked, event, env_host, max_retries, index_exists, index_docs, bucket,
                   key, raw, file_content, attempt, calls, sleeps, outcomes, bedrock_resp,
                   summary, document, result>>

AlreadyExists ==
    [cls |-> "RequestError", code |-> "resource_already_exists_exception", at |-> 0]

\* line 106
IndexCreate ==
    /\ pc = "create"
    /\ ops' = Bump("create")
    /\ \E reachable \in BOOLEAN :
        IF ~reachable
        THEN /\ exc' = OtherError("ConnectionError", 0)
             /\ pc' = "except"
             /\ index_exists' = index_exists
        ELSE IF index_exists
        THEN /\ exc' = AlreadyExists
             /\ pc' = "except"
             /\ index_exists' = index_exists
        ELSE /\ index_exists' = TRUE
             /\ pc' = "index"
             /\ exc' = exc
    /\ UNCHANGED <<started, succeeded, parked, event, env_host, max_retries, index_docs, bucket, key, raw,
                   file_content, attempt, calls, sleeps, outcomes, bedrock_resp, summary,
                   document, result>>

\* line 108 with the filename as document id: an entry of the same filename
\* is replaced
Written_Upsert(docs, doc) ==
    IF \E n \in 1..Len(docs) : docs[n].filename = doc.filename
    THEN [n \in 1..Len(docs) |-> IF docs[n].filename = doc.filename THEN doc ELSE docs[n]]
    ELSE Append(docs, doc)

\* the index after client.index(index=..., body=doc) of line 108: no id is
\* given, the document is a new entry
Written(docs, doc) == Append(docs, doc)

\* lines 108-111
IndexDocument ==
    /\ pc = "index"
    /\ ops' = Bump("index")
    /\ \E accepted \in BOOLEAN :
        IF ~accepted
        THEN /\ exc' = OtherError("TransportError", 0)
             /\ pc' = "except"
             /\ UNCHANGED <<index_docs, result, succeeded>>
        ELSE /\ index_docs' = Written(index_docs, document)
             /\ result' = Response(JsonDumps(<<"Success">>))
             /\ succeeded' = succeeded + 1
             /\ pc' = "done"
             /\ exc' = exc
    /\ UNCHANGED <<started, parked, event, env_host, max_retries, index_exists, bucket, key, raw,
                   file_content, attempt, calls, sleeps, outcomes, bedrock_resp, summary,
                   document>>

\* lines 113-116
Except ==
    /\ pc = "except"
    /\ result' = Response(JsonDumps(<<"Error: ">> \o Str(exc)))
    /\ pc' = "done"
    /\ UNCHANGED <<started, succeeded, parked, event, env_host, max_retries, index_exists, index_docs, bucket,
                   key, raw, file_content, attempt, calls, sleeps, outcomes, bedrock_resp,
                   summary, document, exc, ops>>

\* another writer creates the index "summaries".  handler reads the index's
\* existence at lines 105 and 106 only, so the step is taken right before one
\* of them
ConcurrentCreate ==
    /\ pc \in {"exists", "create"}
    /\ ~index_exists
    /\ index_exists' = TRUE
    /\ UNCHANGED <<started, succeeded, parked, event, env_host, max_retries, index_docs, pc, bucket, key, raw,
                   file_content, attempt, calls, sleeps, outcomes, bedrock_resp, summary,
                   document, exc, result, ops>>

----------------------------------------------------------------------------
(* Specifications *)

Locals ==
    /\ pc = "read_event"
    /\ bucket = ""
    /\ key = <<>>
    /\ raw = <<>>
    /\ file_content = <<>>
    /\ attempt = 0
    /\ calls = 0
    /\ sleeps = <<>>
    /\ outcomes = <<>>
    /\ bedrock_resp = NoResp
    /\ summary = ""
    /\ document = NoDoc
    /\ exc = NoExc
    /\ result = NoResult
    /\ ops = NoOps

\* one invocation of handler, alone in its process
Alone ==
    /\ started = 1
    /\ succeeded = 0
    /\ parked = <<>>

Init ==
    /\ Alone
    /\ event \in Events
    /\ env_host \in {None, "search.example"}
    /\ max_retries = DefaultMaxRetries
    /\ index_exists = FALSE
    /\ index_docs = <<>>
    /\ Locals

Next ==
    \/ ReadEvent
    \/ GetObject
    \/ Decode
    \/ Truncate
    \/ CallBedrock
    \/ Sleep
    \/ Parse
    \/ GetHost
    \/ MakeClient
    \/ IndexExists
    \/ IndexCreate
    \/ IndexDocument
    \/ Except
    \/ ConcurrentCreate

Spec == Init /\ [][Next]_vars

\* the loop of lines 22-32 under other values of line 19's max_retries, for
\* one event
InitCfg ==
    /\ Alone
    /\ event = [Records |-> <<S3Record("docs", <<107, 43, 107>>)>>]
    /\ env_host \in {None, "search.example"}
    /\ max_retries \in (0 - 1)..DefaultMaxRetries
    /\ index_exists = FALSE
    /\ index_docs = <<>>
    /\ Locals

SpecCfg == InitCfg /\ [][Next]_vars

----------------------------------------------------------------------------
(* Several invocations of handler in one process: one after the other, as  *)
(* the Lambda runtime calls handler again for the next event, and          *)
(* interleaved, as when handler runs on several threads that share the     *)
(* module's clients of lines 11-12                                         *)

\* bounds the invocations of handler that follow each other
MaxInvocations == 2

\* the event redelivered or re-uploaded: the object "k+k"
SameEvent == [Records |-> <<S3Record("docs", <<107, 43, 107>>)>>]

\* the next invocation of handler for the same event begins once the previous
\* one has ended; the index is what the previous invocations left
Reinvoke ==
    /\ pc \in {"done", "raised"}
    /\ started < MaxInvocations
    /\ started' = started + 1
    /\ pc' = "read_event"
    /\ bucket' = ""
    /\ key' = <<>>
    /\ raw' = <<>>
    /\ file_content' = <<>>
    /\ attempt' = 0
    /\ calls' = 0
    /\ sleeps' = <<>>
    /\ outcomes' = <<>>
    /\ bedrock_resp' = NoResp
    /\ summary' = ""
    /\ document' = NoDoc
    /\ exc' = NoExc
    /\ result' = NoResult
    /\ ops' = NoOps
    /\ UNCHANGED <<succeeded, parked, event, env_host, max_retries, index_exists,
                   index_docs>>

InitRepeat ==
    /\ Alone
    /\ event = SameEvent
    /\ env_host = "search.example"
    /\ max_retries = DefaultMaxRetries
    /\ index_exists = FALSE
    /\ index_docs = <<>>
    /\ Locals

NextRepeat == Next \/ Reinvoke

SpecRepeat == InitRepeat /\ [][NextRepeat]_vars

----------------------------------------------------------------------------
(* Interleaved invocations.  The module creates the clients s3 and bedrock  *)
(* once (lines 11-12); everything else handler and retry_with_backoff use   *)
(* is a local variable of the call, so an invocation that is not running is *)
(* a frame holding its locals.  The running invocation's locals are the     *)
(* variables of the module; parked holds the frames of the others.          *)

\* the locals of the running invocation
Frame ==
    [pc |-> pc, bucket |-> bucket, key |-> key, raw |-> raw,
     file_content |-> file_content, attempt |-> attempt, calls |-> calls,
     sleeps |-> sleeps, outcomes |-> outcomes, bedrock_resp |-> bedrock_resp,
     summary |-> summary, document |-> document, exc |-> exc,
     result |-> result, ops |-> ops]

\* the locals of an invocation that has not run yet
NewFrame ==
    [pc |-> "read_event", bucket |-> "", key |-> <<>>, raw |-> <<>>,
     file_content |-> <<>>, attempt |-> 0, calls |-> 0, sleeps |-> <<>>,
     outcomes |-> <<>>, bedrock_resp |-> NoResp, summary |-> "",
     document |-> NoDoc, exc |-> NoExc, result |-> NoResult, ops |-> NoOps]

\* line 22 with the loop variable kept in one place for all invocations
ResumedAttempt_Shared(f) == attempt

\* the loop variable of line 22 is a local of each call of
\* retry_with_backoff: an invocation resumes with its own
ResumedAttempt(f) == f.attempt

\* parked without its frame i
Without(i) == SubSeq(parked, 1, i - 1) \o SubSeq(parked, i + 1, Len(parked))

\* the running invocation is about to wait in time.sleep (line 30) and is
\* suspended, or has ended and its frame is gone, and another invocation runs
Switch ==
    /\ pc \in {"sleep", "done", "raised"}
    /\ \E i \in 1..Len(parked) :
        /\ parked' = IF pc = "sleep" THEN [parked EXCEPT ![i] = Frame] ELSE Without(i)
        /\ pc' = parked[i].pc
        /\ bucket' = parked[i].bucket
        /\ key' = parked[i].key
        /\ raw' = parked[i].raw
        /\ file_content' = parked[i].file_content
        /\ attempt' = ResumedAttempt(parked[i])
        /\ calls' = parked[i].calls
        /\ sleeps' = parked[i].sleeps
        /\ outcomes' = parked[i].outcomes
        /\ bedrock_resp' = parked[i].bedrock_resp
        /\ summary' = parked[i].summary
        /\ document' = parked[i].document
        /\ exc' = parked[i].exc
        /\ result' = parked[i].result
        /\ ops' = parked[i].ops
    /\ UNCHANGED <<started, succeeded, event, env_host, max_retries, index_exists,
                   index_docs>>

\* two invocations for the same event in one process
InitConc ==
    /\ started = 2
    /\ succeeded = 0
    /\ parked = <<NewFrame>>
    /\ event = SameEvent
    /\ env_host = "search.example"
    /\ max_retries = DefaultMaxRetries
    /\ index_exists = FALSE
    /\ index_docs = <<>>
    /\ Locals

NextConc == Next \/ Switch

SpecConc == InitConc /\ [][NextConc]_vars

\* the notifications of the objects "k" (empty), "k k" (11 bytes), "B" (not
\* UTF-8) and of a key the bucket does not hold, and the two without records
FairEvents ==
    { [Records |-> <<S3Record("docs", k)>>] :
        k \in {<<107>>, <<107, 43, 107>>, <<66>>, <<37, 66, 66>>} }
        \cup { [Records |-> <<>>], [Other |-> <<>>] }

InitFair ==
    /\ Alone
    /\ event \in FairEvents
    /\ env_host \in {None, "search.example"}
    /\ max_retries = DefaultMaxRetries
    /\ index_exists = FALSE
    /\ index_docs = <<>>
    /\ Locals

\* every call handler makes returns or raises and every time.sleep ends, so
\* an invocation that can take a step takes one
SpecFair == InitFair /\ [][Next]_vars /\ WF_vars(Next)

----------------------------------------------------------------------------
(* Properties *)

Last(s) == s[Len(s)]

\* retry_with_backoff is running
InRetry == pc \in {"call", "sleep"}

\* retry_with_backoff raised: handler's except clause holds an exception of
\* the wrapped operation
RetryRaised == pc \in {"except", "done"} /\ exc.at > 0

AllThrottled == \A i \in 1..Len(outcomes) : outcomes[i] = "throttled"

Throttled(n) == ClientError("ThrottlingException", n)

Success == Response(JsonDumps(<<"Success">>))

\* C1: when every invocation of the wrapped operation is throttled and
\* max_retries is 5, the operation is invoked exactly 5 times with exactly 4
\* sleeps, one between each two consecutive invocations and none after the
\* last, and the throttling failure of the 5th invocation is what the caller
\* gets.
C1_ExhaustedRetries ==
    (max_retries = 5 /\ calls > 0 /\ AllThrottled) =>
        /\ calls = Len(outcomes)
        /\ calls <= 5
        /\ pc = "call" => Len(sleeps) = calls /\ calls < 5
        /\ pc = "sleep" => Len(sleeps) = calls - 1 /\ calls < 5
        /\ ~InRetry => /\ calls = 5
                       /\ Len(sleeps) = 4
                       /\ RetryRaised
                       /\ exc = Throttled(5)
                       /\ bedrock_resp = NoResp

C1_Witness ==
    /\ pc = "except"
    /\ Len(outcomes) = 5
    /\ AllThrottled
    /\ exc = Throttled(5)

\* C2: a failure of the wrapped operation other than throttling is propagated
\* at once at every attempt: after i throttled invocations (0 <= i <= 4) and
\* one that fails otherwise, the operation has been invoked i + 1 times, i
\* sleeps have happened, and that failure is the one the caller gets.
C2_ImmediatePropagation ==
    (calls > 0 /\ Last(outcomes) \in {"client_error", "error"}) =>
        /\ \A i \in 1..(Len(outcomes) - 1) : outcomes[i] = "throttled"
        /\ Len(outcomes) \in 1..5
        /\ calls = Len(outcomes)
        /\ Len(sleeps) = calls - 1
        /\ RetryRaised
        /\ exc \in ModelFailures(calls)
        /\ Outcome(exc) = Last(outcomes)
        /\ pc = "done" => result = Response(JsonDumps(<<"Error: ">> \o Str(exc)))

C2_Witness ==
    /\ pc = "except"
    /\ outcomes = <<"throttled", "throttled", "throttled", "throttled", "client_error">>
    /\ Len(sleeps) = 4
    /\ exc = ClientError("AccessDeniedException", 5)

\* C3: every terminating run of handler ends by returning a response with
\* statusCode 200; no failure of any step, reading the event included,
\* leaves handler as a raised exception.
C3_AlwaysHandled ==
    pc \in {"done", "raised"} => pc = "done" /\ result.statusCode = StatusOk

\* the part of C3 that the try block does cover: whatever is returned has
\* statusCode 200
C3_ReturnedStatus == pc = "done" => result.statusCode = StatusOk

\* C4: if the inference call is throttled on its first k attempts (k in 0..4)
\* and returns on attempt k + 1, it has been invoked exactly k + 1 times with
\* exactly k sleeps, retry_with_backoff returns the response of attempt k + 1,
\* never more than one document is written, and when no later step fails
\* exactly one document is written, its summary the text of that response.
C4_ThrottledThenSuccess ==
    (calls > 0 /\ Last(outcomes) = "returned") =>
        /\ \A i \in 1..(Len(outcomes) - 1) : outcomes[i] = "throttled"
        /\ Len(outcomes) \in 1..5
        /\ calls = Len(outcomes)
        /\ Len(sleeps) = calls - 1
        /\ ~InRetry
        /\ bedrock_resp \in ModelResponses(calls)
        /\ Len(index_docs) <= 1
        /\ ops.index <= 1
        /\ (pc = "done" /\ exc = NoExc) =>
                /\ result = Success
                /\ ops.index = 1
                /\ Len(index_docs) = 1
                /\ index_docs[1].summary = bedrock_resp.content[1].text

\* scenario D: throttled on attempts 1-3, the 4th returns, the document holds
\* its summary
C4_Witness ==
    /\ pc = "done"
    /\ outcomes = <<"throttled", "throttled", "throttled", "returned">>
    /\ Len(sleeps) = 3
    /\ bedrock_resp.at = 4
    /\ Len(index_docs) = 1
    /\ index_docs[1].summary = "A summary"

\* the object was fetched and decoded to the empty text
DecodedEmpty ==
    /\ pc \notin {"read_event", "get_object", "decode", "raised"}
    /\ exc = NoExc
    /\ file_content = <<>>

\* C5: when the fetched object decodes to empty text, handler ends with body
\* 'File is empty' without invoking the inference call, constructing or
\* querying the index client, creating the index or writing a document.
C5_EmptyShortCircuit ==
    /\ DecodedEmpty =>
        /\ pc = "done"
        /\ result = Response(Plain(<<"File is empty">>))
        /\ calls = 0
        /\ ops = [NoOps EXCEPT !.get_object = 1]
        /\ index_docs = <<>>
    /\ (pc \in {"truncate", "call"} \/ calls > 0 \/ ops.client > 0) => Len(file_content) > 0

C5_Witness ==
    /\ pc = "done"
    /\ ops.get_object = 1
    /\ raw = <<>>
    /\ result.body = Plain(<<"File is empty">>)

\* C6: when the exists check returns false and the create then fails because
\* the index was created concurrently, the failure counts as success: the
\* document is written and the invocation ends with the success outcome.
C6_BenignRace ==
    (pc = "done" /\ ops.create = 1 /\ exc = AlreadyExists) =>
        /\ ops.index = 1
        /\ Len(index_docs) = 1
        /\ result = Success

\* retry_with_backoff has ended: it returned (handler is at line 77 or
\* beyond) or it raised
RetryEnded ==
    \/ pc \in {"parse", "get_host", "make_client", "exists", "create", "index"}
    \/ RetryRaised
    \/ pc \in {"except", "done"} /\ bedrock_resp # NoResp

C7_OneAttempt ==
    (max_retries = 1) =>
        /\ pc # "sleep"
        /\ sleeps = <<>>
        /\ RetryEnded =>
            /\ calls = 1
            /\ Len(outcomes) = 1
            /\ outcomes[1] = "returned" => bedrock_resp \in ModelResponses(1)
            /\ outcomes[1] # "returned" => RetryRaised /\ exc \in ModelFailures(1)

\* the lower bounds 2, 4, 8, 16 of C8, in seconds
DelayFloor == <<2, 4, 8, 16>>

\* C8: the sleep after the throttled attempt i (0 <= i < 4) is
\* base_delay * 2^i plus a jitter in [0, 1): at least 2, 4, 8, 16 seconds,
\* less than that plus 1, and the sleeps of one call never decrease.
C8_BackoffDelays ==
    /\ Len(sleeps) <= 4
    /\ \A n \in 1..Len(sleeps) :
        /\ sleeps[n] >= DelayFloor[n] * JitterRes
        /\ sleeps[n] < (DelayFloor[n] + 1) * JitterRes
    /\ \A n \in 1..(Len(sleeps) - 1) : sleeps[n] <= sleeps[n + 1]

\* four sleeps, the largest jitter followed by the smallest
C8_Witness ==
    /\ Len(sleeps) = 4
    /\ sleeps[1] = (DelayFloor[1] + 1) * JitterRes - 1
    /\ sleeps[2] = DelayFloor[2] * JitterRes
    /\ sleeps[4] >= 16 * JitterRes

\* handler has just left line 55 and entered retry_with_backoff: raw is what
\* was fetched, file_content the prepared content
Prepared == pc = "call" /\ calls = 0

\* C9: for every non-empty decoded text, with N = 15000: a text longer than
\* N is prepared as exactly its first N characters, a text of at most N
\* characters is prepared unchanged.
C9_Truncation ==
    Prepared =>
        \A input \in {Utf8Text(raw)} :
            /\ Len(input) > 0
            /\ Len(input) > 15000 =>
                /\ Len(file_content) = 15000
                /\ \A i \in 1..15000 : file_content[i] = input[i]
            /\ Len(input) <= 15000 => file_content = input

\* a text of 15001 characters has been cut to 15000
C9_Witness ==
    /\ pc = "call"
    /\ Len(raw) = 15001
    /\ Len(Utf8Text(raw)) = 15001
    /\ Len(file_content) = 15000

\* C10: the document written to the index has the decoded object key as
\* filename, the first 1000 characters of the prepared content (all of it
\* when shorter) as content, and the text returned by the successful
\* inference call as summary.
C10_DocumentFields ==
    \A n \in 1..Len(index_docs) :
        LET doc == index_docs[n]
        IN  /\ doc.filename = unquote_plus(event.Records[1].s3.object.key)
            /\ Len(doc.content) = IF Len(file_content) < 1000 THEN Len(file_content) ELSE 1000
            /\ \A i \in 1..Len(doc.content) : doc.content[i] = file_content[i]
            /\ Last(outcomes) = "returned"
            /\ doc.summary = bedrock_resp.content[1].text

\* scenario B with a percent-encoded key: the object "k2" of 15000
\* characters is indexed with its first 1000
C10_Witness ==
    /\ Len(index_docs) = 1
    /\ Len(file_content) = 15000
    /\ Len(index_docs[1].content) = 1000
    /\ index_docs[1].filename = <<107, 50>>
    /\ index_docs[1].summary = "A summary"

\* the entries of the index are the same document but for the summary
SameObject(d1, d2) == d1.filename = d2.filename /\ d1.content = d2.content

\* C11: the index write has no deduplication: after k successful invocations
\* of handler for the same event the index holds k entries for that object,
\* one appended by each; an existing entry is never replaced or skipped.
C11_NoDeduplication ==
    /\ Len(index_docs) = succeeded
    /\ succeeded <= started
    /\ \A n \in 1..Len(index_docs) :
        /\ index_docs[n].filename = <<107, 32, 107>>
        /\ index_docs[n].content = AsciiBytes(11)
        /\ SameObject(index_docs[n], index_docs[1])
    /\ (pc = "done" /\ result = Success) =>
        /\ succeeded >= 1
        /\ Last(index_docs) = document

\* two successful invocations for the same event: two entries for the object,
\* the first one kept with its own summary
C11_Witness ==
    /\ started = 2
    /\ succeeded = 2
    /\ pc = "done"
    /\ Len(index_docs) = 2
    /\ SameObject(index_docs[1], index_docs[2])
    /\ index_docs[1].summary = "A summary"
    /\ index_docs[2].summary = ""

IndexOps == ops.client + ops.exists + ops.create + ops.index

Fetching == pc \in {"read_event", "get_object", "decode"}
Preparing == pc = "truncate"
Summarizing == pc \in {"call", "sleep", "parse"}
Indexing == pc \in {"get_host", "make_client", "exists", "create", "index"}

\* C12: the stages of one invocation run in the order Fetching, Preparing,
\* Summarizing, Indexing: the inference call is first invoked only once the
\* object has been fetched and the content prepared, every index operation
\* comes only after the inference call has returned and its summary text has
\* been extracted, and no stage has begun while an earlier one is in progress.
C12_StageOrder ==
    /\ Fetching => calls = 0 /\ IndexOps = 0 /\ bedrock_resp = NoResp
    /\ Preparing =>
        /\ ops.get_object = 1 /\ Len(file_content) > 0
        /\ calls = 0 /\ IndexOps = 0 /\ bedrock_resp = NoResp
    /\ (InRetry \/ calls > 0) =>
        /\ ops.get_object = 1
        /\ Len(file_content) \in 1..TruncationBound
    /\ InRetry => IndexOps = 0 /\ bedrock_resp = NoResp /\ summary = ""
    /\ pc = "parse" =>
        /\ IndexOps = 0
        /\ calls > 0
        /\ Last(outcomes) = "returned"
        /\ bedrock_resp.at = calls
    /\ (Indexing \/ IndexOps > 0) =>
        /\ Last(outcomes) = "returned"
        /\ bedrock_resp.at = calls
        /\ Len(bedrock_resp.content) > 0
        /\ summary = bedrock_resp.content[1].text

C12_Witness ==
    /\ pc = "index"
    /\ ops = [get_object |-> 1, client |-> 1, exists |-> 1, create |-> 1, index |-> 0]
    /\ outcomes = <<"throttled", "returned">>
    /\ summary = "A summary"

\* an exception raised inside the try block of handler is in flight or was
\* handled
Failed == pc \in {"except", "done"} /\ exc # NoExc

\* C13: only the inference call is retried: in one invocation the object
\* fetch, the index exists check, the index create and the document write
\* are each invoked at most once and the inference call at most 5 times; a
\* failure other than a throttled inference call moves the invocation to
\* Failed with no repeated call and no delay.
C13_OnlyInferenceRetried ==
    /\ \A f \in DOMAIN ops : ops[f] <= 1
    /\ calls <= 5
    /\ Len(sleeps) <= 4
    /\ pc = "sleep" => exc = Throttled(calls) /\ Len(sleeps) = calls - 1
    /\ (exc # NoExc /\ pc # "sleep") => pc \in {"except", "done", "raised"}
    /\ Failed =>
        /\ calls > 0 => Len(sleeps) = calls - 1
        /\ calls = 0 => sleeps = <<>>
        /\ exc.at \in {0, calls}
        /\ (exc.at > 0 /\ exc.code = "ThrottlingException") => calls = 5

\* the document write fails after four throttled inference calls: nothing is
\* called again
C13_Witness ==
    /\ pc = "done"
    /\ exc = OtherError("TransportError", 0)
    /\ calls = 5
    /\ Len(sleeps) = 4
    /\ ops = [get_object |-> 1, client |-> 1, exists |-> 1, create |-> 1, index |-> 1]

RECURSIVE Sum(_)
Sum(s) == IF s = <<>> THEN 0 ELSE s[1] + Sum(Tail(s))

\* C14: with max_retries 5 and base delay 2 the total delay of one guarded
\* call is 0 when the first attempt is not throttled, at least 30 and less
\* than 34 seconds when all attempts are throttled, and never more.
C14_TotalDelay ==
    /\ Sum(sleeps) < 34 * JitterRes
    /\ (calls > 0 /\ outcomes[1] # "throttled") => Sum(sleeps) = 0
    /\ (AllThrottled /\ calls = 5) =>
        /\ Len(sleeps) = 4
        /\ Sum(sleeps) >= 30 * JitterRes

\* all five attempts throttled, each sleep with the largest jitter
C14_Witness ==
    /\ pc = "except"
    /\ AllThrottled
    /\ calls = 5
    /\ Sum(sleeps) = 30 * JitterRes + 4 * (JitterRes - 1)

\* C15: the summary is non-empty whenever summarization succeeds: every
\* document written to the index has a non-empty summary, a response whose
\* first content block holds an empty text leads to no index write.
C15_NonEmptySummary ==
    /\ \A n \in 1..Len(index_docs) : index_docs[n].summary # ""
    /\ (Indexing \/ ops.index > 0) => summary # ""

\* the failures of one invocation that come before the Indexing stage: of
\* the fetch (lines 45-46), of the inference call (line 75), of reading its
\* response (lines 77-78)
FailedBeforeIndexing ==
    /\ Failed
    /\ \/ exc.at > 0
       \/ exc.code \in {"AccessDenied", "NoSuchKey"}
       \/ exc.cls \in {"UnicodeDecodeError", "TypeError", "JSONDecodeError", "IndexError"}
       \/ exc.cls = "KeyError" /\ summary = ""

ErrorBody(e) ==
    JsonDumps(<<"Error: ", e.cls>> \o (IF e.code = None THEN <<>> ELSE <<e.code>>))

\* C17: Failed is absorbing and leaves the index untouched when it is reached
\* before Indexing: after a failed fetch, an inference call that failed
\* otherwise than throttled or was throttled 5 times, or a response without
\* the expected structure, no exists, create or write is performed in the
\* invocation, and the response body carries the error message.
C17_FailedBeforeIndexing ==
    /\ [](FailedBeforeIndexing =>
            /\ IndexOps = 0
            /\ index_docs = <<>>
            /\ document = NoDoc
            /\ pc = "done" => result = [statusCode |-> StatusOk, body |-> ErrorBody(exc)])
    /\ [][FailedBeforeIndexing =>
            /\ FailedBeforeIndexing'
            /\ UNCHANGED <<ops, index_docs, index_exists, exc>>]_vars

C17_Witness ==
    /\ pc = "done"
    /\ FailedBeforeIndexing
    /\ exc = ClientError("AccessDeniedException", 3)
    /\ result.body.text = <<"Error: ", "ClientError", "AccessDeniedException">>
    /\ IndexOps = 0

\* the retry state of one invocation, running or not: the attempt counter
\* counts its own delays, each delay follows a throttled call of its own and
\* has the length its own attempt number gives
OwnRetryState(f) ==
    /\ f.calls <= 5
    /\ f.attempt = Len(f.sleeps)
    /\ f.attempt <= 4
    /\ f.calls \in {f.attempt, f.attempt + 1}
    /\ f.pc \in {"read_event", "get_object", "decode", "truncate"} =>
        f.attempt = 0 /\ f.calls = 0
    /\ f.pc = "call" => f.calls = f.attempt
    /\ f.pc = "sleep" => f.calls = f.attempt + 1
    /\ \A n \in 1..Len(f.sleeps) :
        /\ f.outcomes[n] = "throttled"
        /\ f.sleeps[n] >= DelayFloor[n] * JitterRes
        /\ f.sleeps[n] < (DelayFloor[n] + 1) * JitterRes

\* C16: the retry state is per invocation: when invocations run interleaved
\* in one process each one's attempt counter starts at 0 and advances only
\* by its own throttled calls, so each makes at most 5 inference calls, and
\* a throttled call of one changes neither the attempts nor the delays of
\* another: a step of the running invocation leaves the others' state alone
\* and a suspended invocation resumes with the state it was suspended with.
C16_PerInvocationRetry ==
    /\ [](OwnRetryState(Frame) /\ \A i \in 1..Len(parked) : OwnRetryState(parked[i]))
    /\ [][parked' # parked => \E i \in 1..Len(parked) : Frame' = parked[i]]_vars

\* one invocation was throttled four times and is about to sleep for the
\* fourth time, the other succeeded at its first call
C16_Witness ==
    /\ Len(parked) = 1
    /\ parked[1].pc = "sleep"
    /\ parked[1].attempt = 3
    /\ parked[1].calls = 4
    /\ pc = "done"
    /\ result = Success
    /\ calls = 1
    /\ attempt = 0

\* retry_with_backoff ends within its bounds, with the result or the failure
\* of its last invocation of the wrapped operation
RetryOutcome ==
    /\ calls <= 5
    /\ Len(sleeps) <= 4
    /\ Len(sleeps) <= calls
    /\ pc = "parse" =>
        /\ calls >= 1
        /\ bedrock_resp \in ModelResponses(calls)
        /\ Last(outcomes) = "returned"
    /\ RetryRaised =>
        /\ exc \in ModelFailures(calls)
        /\ Last(outcomes) # "returned"
        /\ exc.code = "ThrottlingException" => calls = 5
    /\ bedrock_resp # NoResp => bedrock_resp \in ModelResponses(calls)

\* C18: retry_with_backoff always ends and never falls through: after at most
\* 5 invocations and 4 delays it returns the result of a successful
\* invocation or raises the failure of its last invocation, never a value no
\* invocation produced; so every invocation of handler ends, and one that
\* entered the try block ends with the response of Done or Failed.
C18_RetryTerminates ==
    /\ []RetryOutcome
    /\ InRetry ~> ~InRetry
    /\ <>(pc \in {"done", "raised"})
    /\ (pc = "get_object") ~> (pc = "done" /\ result.statusCode = StatusOk)

\* the fifth invocation succeeded after four delays
C18_Witness ==
    /\ pc = "parse"
    /\ calls = 5
    /\ Len(sleeps) = 4
    /\ bedrock_resp \in ModelResponses(5)

====
